---- MODULE Spec2Model ----
(***************************************************************************)
(* Model of turbojpeg-torch's build tooling:                               *)
(*   - setup.py: get_turbojpeg_version / get_version (version detection)   *)
(*   - bundle_libs.py: get_turbojpeg_lib_path / patch_rpath / bundle_wheel *)
(* Text is modelled as sequences of one-character strings.                 *)
(***************************************************************************)
EXTENDS Integers, Sequences, FiniteSets, TLC

VARIABLES
    vpc,        \* setup.py: position in get_version / get_turbojpeg_version
    pkg_idx,    \* setup.py: index of pkg_name in the dpkg-query loop
    calls,      \* setup.py: the subprocess.run calls made so far, with their outcomes
    tj_suffix,  \* setup.py: value returned by get_turbojpeg_version
    version     \* setup.py: value returned by get_version

VARIABLES
    bpc,         \* bundle_libs.py: position in main / bundle_wheel
    system,      \* bundle_libs.py: platform.system()
    output_dir,  \* bundle_libs.py: the output_dir argument
    disk,        \* bundle_libs.py: the wheel files on disk, by path
    disk0,       \* bundle_libs.py: the disk as it was before the call
    lib_dir,     \* bundle_libs.py: lib_dir returned by get_turbojpeg_lib_path
    lib_name,    \* bundle_libs.py: lib_name returned by get_turbojpeg_lib_path
    lib_entry,   \* bundle_libs.py: what the host holds at lib_dir / lib_name
    tmp_exists,  \* bundle_libs.py: the TemporaryDirectory exists
    tree,        \* bundle_libs.py: the directory tree under extract_dir
    patch_calls, \* bundle_libs.py: the patchelf subprocesses run by patch_rpath
    fs_ops,      \* bundle_libs.py: the file-system writes made so far, in order
    error,       \* bundle_libs.py: the exception bundle_wheel raised, if any
    raised_at,   \* bundle_libs.py: the step that raised it
    result       \* bundle_libs.py: the path bundle_wheel returned, if any

setupVars == <<vpc, pkg_idx, calls, tj_suffix, version>>
bundleVars == <<bpc, system, output_dir, disk, disk0, lib_dir, lib_name, lib_entry,
                tmp_exists, tree, patch_calls, fs_ops, error, raised_at, result>>
vars == <<setupVars, bundleVars>>

\* ------------------------------------------------------------------ text
None == << "<None>" >>
Raised == << "<raised>" >>
Unset == << "<unset>" >>

Digit == {"0", "1", "2", "3", "4", "5", "6", "7", "8", "9"}
Whitespace == {" ", "\n", "\t"}

\* str.strip(): drop leading and trailing whitespace.
RECURSIVE LStrip(_)
LStrip(s) == IF s # <<>> /\ Head(s) \in Whitespace THEN LStrip(Tail(s)) ELSE s
RECURSIVE RStrip(_)
RStrip(s) ==
    IF s # <<>> /\ s[Len(s)] \in Whitespace THEN RStrip(SubSeq(s, 1, Len(s) - 1)) ELSE s
strip(s) == RStrip(LStrip(s))

\* \d+ is greedy: the end of the digit run starting at k (k - 1 if there is none).
RECURSIVE DigitRunEnd(_, _)
DigitRunEnd(s, k) ==
    IF k <= Len(s) /\ s[k] \in Digit THEN DigitRunEnd(s, k + 1) ELSE k - 1

\* The pattern (\d+)\.(\d+)\.(\d+) tried at position k: its three groups, or None.
MatchAt(s, k) ==
    LET e1 == DigitRunEnd(s, k) IN
    IF e1 < k \/ e1 + 1 > Len(s) \/ s[e1 + 1] # "." THEN None
    ELSE LET e2 == DigitRunEnd(s, e1 + 2) IN
         IF e2 < e1 + 2 \/ e2 + 1 > Len(s) \/ s[e2 + 1] # "." THEN None
         ELSE LET e3 == DigitRunEnd(s, e2 + 2) IN
              IF e3 < e2 + 2 THEN None
              ELSE << SubSeq(s, k, e1), SubSeq(s, e1 + 2, e2), SubSeq(s, e2 + 2, e3) >>

\* re.match: anchored at the start of the string.
re_match(s) == MatchAt(s, 1)

\* re.search: the leftmost position where the pattern matches.
RECURSIVE SearchFrom(_, _)
SearchFrom(s, k) ==
    IF k > Len(s) THEN None
    ELSE IF MatchAt(s, k) # None THEN MatchAt(s, k) ELSE SearchFrom(s, k + 1)
re_search(s) == SearchFrom(s, 1)

\* Mutant of FormatSuffix: the three numbers joined with dots.
FormatSuffixDotted(groups) ==
    <<"t", "j">> \o groups[1] \o <<".">> \o groups[2] \o <<".">> \o groups[3]

\* f"tj{major}{minor}{patch}"
FormatSuffix(groups) == <<"t", "j">> \o groups[1] \o groups[2] \o groups[3]

BASE_VERSION == <<"2", ".", "0", ".", "0">>

\* f"{BASE_VERSION}+{tj_suffix}" when tj_suffix is truthy, else BASE_VERSION.
FormatVersion(suffix) ==
    IF suffix # None /\ suffix # <<>> THEN BASE_VERSION \o <<"+">> \o suffix
    ELSE BASE_VERSION

\* -------------------------------------------------- bundle_libs.py model
NoPath == "<None>"
NoError == "<none>"

\* common_paths and lib_name of get_turbojpeg_lib_path, per platform.
CommonPaths(sys) ==
    IF sys = "Linux"
    THEN << "/usr/lib/x86_64-linux-gnu", "/usr/lib64", "/usr/lib",
            "/opt/libjpeg-turbo/lib64", "/usr/local/lib" >>
    ELSE IF sys = "Darwin"
    THEN << "/usr/local/opt/jpeg-turbo/lib", "/opt/homebrew/opt/jpeg-turbo/lib",
            "/opt/libjpeg-turbo/lib64" >>
    ELSE IF sys = "Windows"
    THEN << "C:/libjpeg-turbo64/bin", "C:/libjpeg-turbo/bin" >>
    ELSE << >>

LibName(sys) ==
    IF sys = "Linux" THEN "libturbojpeg.so.0"
    ELSE IF sys = "Darwin" THEN "libturbojpeg.dylib"
    ELSE IF sys = "Windows" THEN "turbojpeg.dll"
    ELSE NoPath

\* get_turbojpeg_lib_path: the first common path where os.path.exists holds
\* for path/lib_name; exists[i] is the host's answer for common_paths[i].
get_turbojpeg_lib_path(sys, exists) ==
    LET paths == CommonPaths(sys)
        hits == { i \in 1..Len(paths) : exists[i] }
    IN IF sys \notin {"Linux", "Darwin", "Windows"} THEN << NoPath, NoPath >>
       ELSE IF hits = {} THEN << NoPath, NoPath >>
       ELSE << paths[CHOOSE i \in hits : \A j \in hits : i <= j], LibName(sys) >>

\* Mutant of LibFound: the guard never raises.
LibFoundAlways(dir) == TRUE

\* The guard of bundle_wheel: "if not lib_dir: raise RuntimeError".
LibFound(dir) == dir # NoPath

\* --- the extracted tree: a function from paths (sequences of components)
\* to nodes. A node is a regular file with its data, a directory, or a
\* symlink to a name in the same directory.
NoData == [src |-> <<>>, patched |-> FALSE, appended |-> {}]
FileNode(data) == [kind |-> "file", data |-> data, target |-> ""]
DirNode == [kind |-> "dir", data |-> NoData, target |-> ""]
SymlinkNode(name) == [kind |-> "symlink", data |-> NoData, target |-> name]
EmptyTree == [p \in {} |-> DirNode]

Parent(p) == SubSeq(p, 1, Len(p) - 1)
Name(p) == p[Len(p)]
IsPrefix(p, q) == Len(p) <= Len(q) /\ SubSeq(q, 1, Len(p)) = p
\* The directories above p, extract_dir itself (the empty path) included.
Ancestors(p) == { SubSeq(p, 1, k) : k \in 0..(Len(p) - 1) }
Children(t, d) == { p \in DOMAIN t : Len(p) = Len(d) + 1 /\ Parent(p) = d }

\* Path.resolve() inside the tree: a symlink leads to its sibling.
Resolve(t, p) ==
    IF p \in DOMAIN t /\ t[p].kind = "symlink" THEN Parent(p) \o << t[p].target >> ELSE p
\* Path.exists(), Path.is_file(), Path.is_dir() follow symlinks; is_symlink does not.
Exists(t, p) == p \in DOMAIN t /\ Resolve(t, p) \in DOMAIN t
IsFile(t, p) == Exists(t, p) /\ t[Resolve(t, p)].kind = "file"
IsDir(t, p) == Exists(t, p) /\ t[Resolve(t, p)].kind = "dir"
IsSymlink(t, p) == p \in DOMAIN t /\ t[p].kind = "symlink"

Put(t, q, node) == [p \in DOMAIN t \cup {q} |-> IF p = q THEN node ELSE t[p]]

\* ZipFile.extractall: every entry is written under extract_dir with the
\* directories above it, so an archive without entries does not even create
\* extract_dir. (The entry names of the model are normalised relative paths,
\* which extractall keeps as they are.) It fails when one entry's name is a
\* directory of another entry.
ExtractConflict(entries) ==
    \E a \in entries, b \in entries : a.name # b.name /\ IsPrefix(a.name, b.name)

ExtractAll(entries) ==
    LET names == { e.name : e \in entries }
        dirs == UNION { Ancestors(n) : n \in names }
    IN [p \in names \cup dirs |->
           IF p \in names
           THEN FileNode((CHOOSE e \in entries : e.name = p).data)
           ELSE DirNode]

\* Where shutil.copy2(src, dst) writes: into dst when dst is a directory.
Copy2Dest(t, src_name, dst) == IF IsDir(t, dst) THEN dst \o << src_name >> ELSE dst

\* shutil.copy2(src, dst) of a host file into the tree: the new tree, or
\* the exception raised.
Copy2(t, src_kind, src_name, src_data, dst) ==
    LET real == Resolve(t, Copy2Dest(t, src_name, dst)) IN
    IF src_kind = "dir" THEN [error |-> "IsADirectoryError", tree |-> t]
    ELSE IF IsDir(t, real) THEN [error |-> "IsADirectoryError", tree |-> t]
    ELSE [error |-> NoError, tree |-> Put(t, real, FileNode(src_data))]

\* The data of the host's library file of the given name.
HostData(name) == [src |-> << "host", name >>, patched |-> FALSE, appended |-> {}]

LibsDir == << "turbojpeg_libs" >>
DistInfoDir == "turbojpeg_torch-2.0.0.dist-info"

\* Path.glob patterns used by bundle_wheel, on the names of the model.
MatchesLibturbojpegSo(name) ==
    name \in {"libturbojpeg.so", "libturbojpeg.so.0", "libturbojpeg.so.0.2.0"}
MatchesSo(name) ==
    name \in {"libturbojpeg.so", "libturbojpeg.so.0", "libturbojpeg.so.0.2.0", "other.so"}
MatchesDistInfoRecord(p) == Len(p) = 2 /\ p[1] = DistInfoDir /\ p[2] = "RECORD"

\* Mutant of PatchRpathCatches: only the missing executable is caught.
PatchRpathCatchesOnlyMissing(exc) == exc = "FileNotFoundError"

\* patch_rpath: the exceptions of subprocess.run it turns into a warning.
PatchRpathCatches(exc) == exc \in {"CalledProcessError", "FileNotFoundError"}

\* patch_rpath: whether it runs patchelf at all.
PatchRpathRuns(sys) == sys = "Linux"

\* The rpath bundle_wheel passes to patch_rpath.
BundledRpath == "$ORIGIN"

\* --- inputs
Systems == {"Linux", "Darwin", "Windows", "FreeBSD"}
OutputDirs == {"None", "out", "nodir"}
InPath == "dist/pkg.whl"
OutPath == "out/pkg.whl"
NoFile == [present |-> FALSE, entries |-> {}]
ZipFileOf(entries) == [present |-> TRUE, entries |-> entries]

\* output_dir / wheel_path.name; output_dir defaults to wheel_path.parent.
OutputWheel(dir) ==
    IF dir = "None" THEN InPath ELSE IF dir = "out" THEN OutPath ELSE "nodir/pkg.whl"

WheelData(name) == [src |-> << "wheel" >> \o name, patched |-> FALSE, appended |-> {}]
EntryNames(sys) ==
    { << "turbojpeg", "__init__.py" >>,
      << DistInfoDir, "RECORD" >>,
      << "turbojpeg_libs" >>,
      << "turbojpeg_libs", LibName(sys) >>,
      << "turbojpeg_libs", LibName(sys), "x" >>,
      << "turbojpeg_libs", "other.so" >> }
Wheels(sys) == { ZipFileOf({ [name |-> n, data |-> WheelData(n)] : n \in S }) :
                   S \in SUBSET EntryNames(sys) }
StaleWheel == ZipFileOf({ [name |-> << "stale" >>, data |-> WheelData(<< "stale" >>)] })

\* What the host may hold at lib_dir/lib_name when os.path.exists holds: a
\* regular file, a symlink to a regular file of some name, or a directory.
VersionedName(sys) ==
    IF sys = "Linux" THEN "libturbojpeg.so.0.2.0"
    ELSE IF sys = "Darwin" THEN "libturbojpeg.0.2.0.dylib"
    ELSE "turbojpeg-0.2.0.dll"
HostEntries(sys) ==
    { [kind |-> "file", real_name |-> LibName(sys)],
      [kind |-> "dir", real_name |-> LibName(sys)],
      [kind |-> "symlink", real_name |-> LibName(sys)],
      [kind |-> "symlink", real_name |-> VersionedName(sys)] }
NoEntry == [kind |-> "none", real_name |-> NoPath]
\* Regular files the host may hold in lib_dir beside lib_name.
SiblingNames == {"libturbojpeg.so.0.2.0"}
\* patchelf on the host: missing, not executable, or installed.
PatchelfStates == {"missing", "noexec", "installed"}
\* new_rpath arguments of a direct patch_rpath call.
Rpaths == {"$ORIGIN", "/opt/libjpeg-turbo/lib64"}

StartBundle ==
    /\ bpc = "start"
    /\ system \in Systems
    /\ output_dir \in OutputDirs
    /\ \E w \in Wheels(system) \cup {NoFile}, o \in {NoFile, StaleWheel} :
           disk = [p \in {InPath, OutPath} |-> IF p = InPath THEN w ELSE o]
    /\ disk0 = disk
    /\ lib_dir = NoPath
    /\ lib_name = NoPath
    /\ lib_entry = NoEntry
    /\ tmp_exists = FALSE
    /\ tree = EmptyTree
    /\ patch_calls = {}
    /\ fs_ops = <<>>
    /\ error = NoError
    /\ raised_at = NoError
    /\ result = NoPath

IdleBundle ==
    /\ bpc = "idle"
    /\ system = "Linux"
    /\ output_dir = "None"
    /\ disk = [p \in {InPath, OutPath} |-> NoFile]
    /\ disk0 = disk
    /\ lib_dir = NoPath
    /\ lib_name = NoPath
    /\ lib_entry = NoEntry
    /\ tmp_exists = FALSE
    /\ tree = EmptyTree
    /\ patch_calls = {}
    /\ fs_ops = <<>>
    /\ error = NoError
    /\ raised_at = NoError
    /\ result = NoPath

\* An exception leaves bundle_wheel; inside the with-block the
\* TemporaryDirectory is removed on the way out.
Raise(exc, ops) ==
    /\ bpc' = "raised"
    /\ error' = exc
    /\ raised_at' = bpc
    /\ tmp_exists' = FALSE
    /\ tree' = EmptyTree
    /\ fs_ops' = IF tmp_exists THEN ops \o << "rmtree" >> ELSE ops

\* bundle_libs.py 107-117
LookupLibrary ==
    /\ bpc = "start"
    /\ \E exists \in [1..Len(CommonPaths(system)) -> BOOLEAN], entry \in HostEntries(system) :
        LET found == get_turbojpeg_lib_path(system, exists) IN
        /\ lib_dir' = found[1]
        /\ lib_name' = found[2]
        /\ IF LibFound(found[1])
           THEN /\ lib_entry' = entry
                /\ bpc' = "extract"
                /\ UNCHANGED <<tmp_exists, tree, fs_ops, error, raised_at>>
           ELSE /\ lib_entry' = NoEntry
                /\ Raise("RuntimeError", fs_ops)
    /\ UNCHANGED <<system, output_dir, disk, disk0, patch_calls, result>>
    /\ UNCHANGED setupVars

\* bundle_libs.py 119-126: TemporaryDirectory, ZipFile(wheel_path, "r"), extractall
ExtractWheel ==
    /\ bpc = "extract"
    /\ IF ~disk[InPath].present
       THEN Raise("FileNotFoundError", fs_ops \o << "mkdtemp", "rmtree" >>)
       ELSE IF ExtractConflict(disk[InPath].entries)
       THEN Raise("OSError", fs_ops \o << "mkdtemp", "extractall", "rmtree" >>)
       ELSE /\ tmp_exists' = TRUE
            /\ tree' = ExtractAll(disk[InPath].entries)
            /\ fs_ops' = fs_ops \o << "mkdtemp", "extractall" >>
            /\ bpc' = "mkdir"
            /\ UNCHANGED <<error, raised_at>>
    /\ UNCHANGED <<system, output_dir, disk, disk0, lib_dir, lib_name, lib_entry,
                   patch_calls, result>>
    /\ UNCHANGED setupVars

\* bundle_libs.py 129-130: libs_dir.mkdir(exist_ok=True)
MakeLibsDir ==
    /\ bpc = "mkdir"
    /\ IF LibsDir \in DOMAIN tree
       THEN IF IsDir(tree, LibsDir)
            THEN /\ bpc' = "copy"
                 /\ UNCHANGED <<tmp_exists, tree, fs_ops, error, raised_at>>
            ELSE Raise("FileExistsError", fs_ops)
       ELSE IF Parent(LibsDir) \notin DOMAIN tree
       THEN Raise("FileNotFoundError", fs_ops)
       ELSE /\ tree' = Put(tree, LibsDir, DirNode)
            /\ fs_ops' = Append(fs_ops, "mkdir")
            /\ bpc' = "copy"
            /\ UNCHANGED <<tmp_exists, error, raised_at>>
    /\ UNCHANGED <<system, output_dir, disk, disk0, lib_dir, lib_name, lib_entry,
                   patch_calls, result>>
    /\ UNCHANGED setupVars

\* bundle_libs.py 136-147: lib_path is a symlink; copy the real file under
\* its own name, then link the expected name to it unless that name exists.
CopySymlinkedLibrary(t, entry, expected) ==
    LET dest == LibsDir \o << entry.real_name >>
        copied == Copy2(t, "file", entry.real_name, HostData(entry.real_name), dest)
        symlink_dest == LibsDir \o << expected >>
    IN IF copied.error # NoError THEN copied
       ELSE IF ~Exists(copied.tree, symlink_dest)
       THEN [error |-> NoError,
             tree |-> Put(copied.tree, symlink_dest, SymlinkNode(Name(dest)))]
       ELSE copied

\* bundle_libs.py 148-151: lib_path is not a symlink; copy it under the expected name.
CopyPlainLibrary(t, entry, expected) ==
    Copy2(t, entry.kind, expected, HostData(expected), LibsDir \o << expected >>)

\* bundle_libs.py 133-151
CopyMainLibrary ==
    /\ bpc = "copy"
    /\ LET copied == IF lib_entry.kind = "symlink"
                     THEN CopySymlinkedLibrary(tree, lib_entry, lib_name)
                     ELSE CopyPlainLibrary(tree, lib_entry, lib_name)
       IN IF copied.error # NoError
          THEN Raise(copied.error, fs_ops)
          ELSE /\ tree' = copied.tree
               /\ fs_ops' = fs_ops \o
                     (IF IsSymlink(copied.tree, LibsDir \o << lib_name >>)
                      THEN << "copy2", "symlink_to" >> ELSE << "copy2" >>)
               /\ bpc' = "copy_versioned"
               /\ UNCHANGED <<tmp_exists, error, raised_at>>
    /\ UNCHANGED <<system, output_dir, disk, disk0, lib_dir, lib_name, lib_entry,
                   patch_calls, result>>
    /\ UNCHANGED setupVars

\* bundle_libs.py 154-161: on Linux every non-symlink libturbojpeg.so* of
\* lib_dir is copied unless its name exists in libs_dir already. globbed is
\* the set of those files' names.
CopyVersionedInto(t, globbed) ==
    LET new == { LibsDir \o << n >> : n \in { m \in globbed : ~Exists(t, LibsDir \o << m >>) } }
    IN [p \in DOMAIN t \cup new |-> IF p \in new THEN FileNode(HostData(Name(p))) ELSE t[p]]

CopyVersioned ==
    /\ bpc = "copy_versioned"
    /\ IF system = "Linux"
       THEN \E siblings \in SUBSET SiblingNames :
              LET globbed == { n \in siblings \cup
                                 (IF lib_entry.kind = "symlink" THEN {} ELSE {lib_name}) :
                               MatchesLibturbojpegSo(n) }
                  t2 == CopyVersionedInto(tree, globbed)
              IN /\ tree' = t2
                 /\ fs_ops' = IF DOMAIN t2 # DOMAIN tree THEN Append(fs_ops, "copy2") ELSE fs_ops
       ELSE UNCHANGED <<tree, fs_ops>>
    /\ bpc' = "patch"
    /\ UNCHANGED <<system, output_dir, disk, disk0, lib_dir, lib_name, lib_entry,
                   tmp_exists, patch_calls, error, raised_at, result>>
    /\ UNCHANGED setupVars

\* What subprocess.run(["patchelf", ...], check=True) does on a host.
PatchelfOutcomes(patchelf) ==
    IF patchelf = "missing" THEN {"FileNotFoundError"}
    ELSE IF patchelf = "noexec" THEN {"PermissionError"}
    ELSE {"ok", "CalledProcessError"}

\* bundle_libs.py 75-88: patch_rpath(lib_path, new_rpath) for one outcome of
\* subprocess.run: the subprocess it ran (if any) and the exception that
\* leaves it (NoError when it returns).
patch_rpath(sys, lib_path, new_rpath, outcome) ==
    IF ~PatchRpathRuns(sys) THEN [ran |-> {}, error |-> NoError]
    ELSE [ran |-> { [file |-> lib_path, rpath |-> new_rpath, outcome |-> outcome] },
          error |-> IF outcome = "ok" \/ PatchRpathCatches(outcome) THEN NoError ELSE outcome]

\* bundle_libs.py 75-88: patch_rpath called on its own, as an importer of
\* the module may, on one library file and with any rpath.
CallPatchRpath ==
    /\ bpc = "start"
    /\ \E new_rpath \in Rpaths, patchelf \in PatchelfStates :
       \E outcome \in PatchelfOutcomes(patchelf) :
          LET done == patch_rpath(system, LibsDir \o << LibName(system) >>, new_rpath, outcome)
          IN /\ patch_calls' = patch_calls \cup done.ran
             /\ error' = done.error
             /\ bpc' = IF done.error = NoError THEN "patch_rpath_returned"
                       ELSE "patch_rpath_raised"
    /\ UNCHANGED <<system, output_dir, disk, disk0, lib_dir, lib_name, lib_entry,
                   tmp_exists, tree, fs_ops, raised_at, result>>
    /\ UNCHANGED setupVars

\* The files bundle_wheel hands to patch_rpath: libs_dir.glob("*.so*") less
\* the symlinks.
PatchTargets(t) ==
    { p \in Children(t, LibsDir) : MatchesSo(Name(p)) /\ ~IsSymlink(t, p) }

\* bundle_libs.py 164-167
PatchRpaths ==
    /\ bpc = "patch"
    /\ IF system = "Linux"
       THEN \E patchelf \in PatchelfStates :
            \E outcome \in [PatchTargets(tree) -> PatchelfOutcomes(patchelf)] :
            \E order \in SUBSET PatchTargets(tree) :
              LET done(p) == patch_rpath(system, p, BundledRpath, outcome[p])
                  raising == { p \in PatchTargets(tree) : done(p).error # NoError }
                  \* the files reached before the first call that raises
                  reached == IF raising = {} THEN PatchTargets(tree) ELSE order
                  patched == { p \in reached : outcome[p] = "ok" /\ tree[p].kind = "file" }
              IN /\ raising # {} => Cardinality(order \cap raising) = 1
                 /\ raising = {} => order = {}
                 /\ patch_calls' = patch_calls \cup UNION { done(p).ran : p \in reached }
                 /\ IF raising = {}
                    THEN /\ tree' = [p \in DOMAIN tree |->
                                       IF p \in patched
                                       THEN [tree[p] EXCEPT !.data.patched = TRUE]
                                       ELSE tree[p]]
                         /\ fs_ops' = IF patched # {} THEN Append(fs_ops, "patchelf") ELSE fs_ops
                         /\ bpc' = "record"
                         /\ UNCHANGED <<tmp_exists, error, raised_at>>
                    ELSE Raise(done(CHOOSE p \in order \cap raising : TRUE).error, fs_ops)
       ELSE /\ bpc' = "record"
            /\ UNCHANGED <<patch_calls, tmp_exists, tree, fs_ops, error, raised_at>>
    /\ UNCHANGED <<system, output_dir, disk, disk0, lib_dir, lib_name, lib_entry, result>>
    /\ UNCHANGED setupVars

\* bundle_libs.py 170-176: append one line per entry of libs_dir to the
\* first *.dist-info/RECORD, if there is one.
UpdateRecord ==
    /\ bpc = "record"
    /\ LET record_files == { p \in DOMAIN tree : MatchesDistInfoRecord(p) }
           lines == Children(tree, LibsDir)
       IN IF record_files # {}
          THEN \E record_file \in record_files :
                 IF IsDir(tree, record_file)
                 THEN Raise("IsADirectoryError", fs_ops)
                 ELSE /\ tree' = [tree EXCEPT ![record_file].data.appended = @ \cup lines]
                      /\ fs_ops' = Append(fs_ops, "append")
                      /\ bpc' = "repack"
                      /\ UNCHANGED <<tmp_exists, error, raised_at>>
          ELSE /\ bpc' = "repack"
               /\ UNCHANGED <<tmp_exists, tree, fs_ops, error, raised_at>>
    /\ UNCHANGED <<system, output_dir, disk, disk0, lib_dir, lib_name, lib_entry,
                   patch_calls, result>>
    /\ UNCHANGED setupVars

\* The entries ZipFile.write makes of extract_dir.rglob("*"): every path
\* that is a file or a symlink, with the data read through the symlink. A
\* symlink to a directory is stored as a directory entry, "<name>/".
RepackEntries(t) ==
    { [name |-> IF IsDir(t, p) THEN p \o << "" >> ELSE p, data |-> t[Resolve(t, p)].data] :
        p \in { q \in DOMAIN t : IsFile(t, q) \/ IsSymlink(t, q) } }

\* bundle_libs.py 179-188: ZipFile(output_wheel, "w"), return, and the
\* TemporaryDirectory is removed.
RepackWheel ==
    /\ bpc = "repack"
    /\ LET output_wheel == OutputWheel(output_dir) IN
       IF output_wheel \notin DOMAIN disk
       THEN /\ Raise("FileNotFoundError", fs_ops)
            /\ UNCHANGED <<disk, result>>
       ELSE /\ disk' = [disk EXCEPT ![output_wheel] = ZipFileOf(RepackEntries(tree))]
            /\ result' = output_wheel
            /\ bpc' = "returned"
            /\ tmp_exists' = FALSE
            /\ tree' = EmptyTree
            /\ fs_ops' = fs_ops \o << "zip_write", "rmtree" >>
            /\ UNCHANGED <<error, raised_at>>
    /\ UNCHANGED <<system, output_dir, disk0, lib_dir, lib_name, lib_entry, patch_calls>>
    /\ UNCHANGED setupVars

\* bundle_libs.py 205-210: main prints the path, or the error and exits 1.
MainExit ==
    /\ bpc \in {"returned", "raised"}
    /\ bpc' = IF bpc = "returned" THEN "exit0" ELSE "exit1"
    /\ UNCHANGED <<system, output_dir, disk, disk0, lib_dir, lib_name, lib_entry,
                   tmp_exists, tree, patch_calls, fs_ops, error, raised_at, result>>
    /\ UNCHANGED setupVars

NextBundle ==
    \/ LookupLibrary
    \/ ExtractWheel
    \/ MakeLibsDir
    \/ CopyMainLibrary
    \/ CopyVersioned
    \/ PatchRpaths
    \/ UpdateRecord
    \/ RepackWheel
    \/ MainExit
    \/ CallPatchRpath

\* ------------------------------------------------------- setup.py model
\* What the build host answers to a query: the executable is missing
\* (subprocess.run raises FileNotFoundError), it cannot be executed
\* (subprocess.run raises PermissionError, which no block catches), or it
\* completes with a return code and a stdout text.
Stdouts ==
    { <<"2", ".", "1", ".", "2", "\n">>,
      <<"2", ".", "1", ".", "2", "-", "0", "u", "b", "u", "n", "t", "u", "1">>,
      <<" ", "1", "0", ".", "0", "2", ".", "2", "5", "r", "c", "1", "\n">>,
      <<"j", "p", "e", "g", "-", "t", "u", "r", "b", "o", " ", "2", ".", "1", ".", "5", " ",
        "3", ".", "0", ".", "1", "\n">>,
      <<"2", ".", "1", "\n">>,
      <<>> }
FailStdouts == { <<>>, <<"2", ".", "1", ".", "2", "\n">> }

Outcomes ==
    { [kind |-> k, returncode |-> -1, stdout |-> <<>>] :
        k \in {"FileNotFoundError", "PermissionError"} }
    \cup { [kind |-> "completed", returncode |-> 0, stdout |-> o] : o \in Stdouts }
    \cup { [kind |-> "completed", returncode |-> 1, stdout |-> o] : o \in FailStdouts }

\* Mutant of DpkgPackages: libturbojpeg0 queried before libturbojpeg.
DpkgPackagesSwapped == << "libturbojpeg0", "libturbojpeg", "libjpeg-turbo8" >>

DpkgPackages == << "libturbojpeg", "libturbojpeg0", "libjpeg-turbo8" >>

PkgConfigArgv == << "pkg-config", "--modversion", "libturbojpeg" >>
DpkgArgv(pkg_name) == << "dpkg-query", "-W", "-f=${Version}", pkg_name >>
RpmArgv == << "rpm", "-q", "--queryformat", "%{VERSION}", "libjpeg-turbo-devel" >>
BrewArgv == << "brew", "list", "--versions", "jpeg-turbo" >>

\* Mutant of MatchBlock: the block without its "except FileNotFoundError".
MatchBlockNoExcept(outcome) ==
    IF outcome.kind # "completed" THEN Raised
    ELSE IF outcome.returncode # 0 THEN None
    ELSE LET m == re_match(strip(outcome.stdout)) IN
         IF m # None THEN FormatSuffix(m) ELSE None

\* The suffix one try-block computes from the outcome of its subprocess.run,
\* None when the block falls through (except FileNotFoundError: pass,
\* returncode != 0, or no match), Raised when the exception is not caught.
MatchBlock(outcome) ==
    IF outcome.kind = "FileNotFoundError" THEN None
    ELSE IF outcome.kind # "completed" THEN Raised
    ELSE IF outcome.returncode # 0 THEN None
    ELSE LET m == re_match(strip(outcome.stdout)) IN
         IF m # None THEN FormatSuffix(m) ELSE None

SearchBlock(outcome) ==
    IF outcome.kind = "FileNotFoundError" THEN None
    ELSE IF outcome.kind # "completed" THEN Raised
    ELSE IF outcome.returncode # 0 THEN None
    ELSE LET m == re_search(strip(outcome.stdout)) IN
         IF m # None THEN FormatSuffix(m) ELSE None

StartSetup ==
    /\ vpc = "pkg-config"
    /\ pkg_idx = 1
    /\ calls = <<>>
    /\ tj_suffix = Unset
    /\ version = Unset

\* setup.py 20-34
TryPkgConfig ==
    /\ vpc = "pkg-config"
    /\ \E outcome \in Outcomes :
        LET r == MatchBlock(outcome) IN
        /\ calls' = Append(calls, [argv |-> PkgConfigArgv, outcome |-> outcome])
        /\ IF r = Raised
           THEN vpc' = "raised" /\ tj_suffix' = tj_suffix
           ELSE IF r # None
           THEN vpc' = "returned" /\ tj_suffix' = r
           ELSE vpc' = "dpkg-query" /\ tj_suffix' = tj_suffix
    /\ UNCHANGED <<pkg_idx, version>>
    /\ UNCHANGED bundleVars

\* setup.py 37-52: one iteration of the loop over the package names
TryDpkgQuery ==
    /\ vpc = "dpkg-query"
    /\ \E outcome \in Outcomes :
        LET r == MatchBlock(outcome) IN
        /\ calls' = Append(calls, [argv |-> DpkgArgv(DpkgPackages[pkg_idx]),
                                   outcome |-> outcome])
        /\ IF r = Raised
           THEN vpc' = "raised" /\ tj_suffix' = tj_suffix /\ pkg_idx' = pkg_idx
           ELSE IF r # None
           THEN vpc' = "returned" /\ tj_suffix' = r /\ pkg_idx' = pkg_idx
           ELSE IF pkg_idx < Len(DpkgPackages)
                THEN vpc' = vpc /\ pkg_idx' = pkg_idx + 1 /\ tj_suffix' = tj_suffix
                ELSE vpc' = "rpm" /\ pkg_idx' = pkg_idx /\ tj_suffix' = tj_suffix
    /\ UNCHANGED version
    /\ UNCHANGED bundleVars

\* setup.py 55-68
TryRpm ==
    /\ vpc = "rpm"
    /\ \E outcome \in Outcomes :
        LET r == MatchBlock(outcome) IN
        /\ calls' = Append(calls, [argv |-> RpmArgv, outcome |-> outcome])
        /\ IF r = Raised
           THEN vpc' = "raised" /\ tj_suffix' = tj_suffix
           ELSE IF r # None
           THEN vpc' = "returned" /\ tj_suffix' = r
           ELSE vpc' = "brew" /\ tj_suffix' = tj_suffix
    /\ UNCHANGED <<pkg_idx, version>>
    /\ UNCHANGED bundleVars

\* setup.py 71-88: the last block; falling through it returns None
TryBrew ==
    /\ vpc = "brew"
    /\ \E outcome \in Outcomes :
        LET r == SearchBlock(outcome) IN
        /\ calls' = Append(calls, [argv |-> BrewArgv, outcome |-> outcome])
        /\ IF r = Raised
           THEN vpc' = "raised" /\ tj_suffix' = tj_suffix
           ELSE vpc' = "returned" /\ tj_suffix' = r
    /\ UNCHANGED <<pkg_idx, version>>
    /\ UNCHANGED bundleVars

\* setup.py 91-96
get_version ==
    /\ vpc = "returned"
    /\ version' = FormatVersion(tj_suffix)
    /\ vpc' = "done"
    /\ UNCHANGED <<pkg_idx, calls, tj_suffix>>
    /\ UNCHANGED bundleVars

NextSetup == TryPkgConfig \/ TryDpkgQuery \/ TryRpm \/ TryBrew \/ get_version

IdleSetup ==
    /\ vpc = "idle"
    /\ pkg_idx = 1
    /\ calls = <<>>
    /\ tj_suffix = Unset
    /\ version = Unset

\* setup.py run on a build host
InitSetup == StartSetup /\ IdleBundle
SpecSetup == InitSetup /\ [][NextSetup]_vars

\* bundle_libs.py run on a wheel
InitBundle == StartBundle /\ IdleSetup
SpecBundle == InitBundle /\ [][NextBundle]_vars

\* ---------------------------------------------------- setup.py properties
\* d holds a three-part numeric version M.m.p at position k: M = d[k..a],
\* m = d[a+2..b], p = d[b+2..c], each a non-empty run of decimal digits, p
\* not followed by a further digit.
VersionAt(d, k, a, b, c) ==
    /\ k <= a /\ a + 2 <= b /\ b + 2 <= c /\ c <= Len(d)
    /\ \A x \in k..a : d[x] \in Digit
    /\ d[a + 1] = "."
    /\ \A x \in (a + 2)..b : d[x] \in Digit
    /\ d[b + 1] = "."
    /\ \A x \in (b + 2)..c : d[x] \in Digit
    /\ (c = Len(d) \/ d[c + 1] \notin Digit)

HasVersionAt(d, k) ==
    \E a \in 1..Len(d), b \in 1..Len(d), c \in 1..Len(d) : VersionAt(d, k, a, b, c)

\* "tj" followed by the digits of M, m and p, with no separator.
SuffixAt(d, k, a, b, c) ==
    <<"t", "j">> \o SubSeq(d, k, a) \o SubSeq(d, a + 2, b) \o SubSeq(d, b + 2, c)

\* t is s without its leading and trailing whitespace.
IsTrimOf(t, s) ==
    \E i \in 0..Len(s), j \in 0..Len(s) :
        /\ i + j <= Len(s)
        /\ \A x \in 1..i : s[x] \in Whitespace
        /\ \A x \in (Len(s) - j + 1)..Len(s) : s[x] \in Whitespace
        /\ t = SubSeq(s, i + 1, Len(s) - j)
        /\ (t = <<>> \/ (t[1] \notin Whitespace /\ t[Len(t)] \notin Whitespace))

Trimmed(s) == CHOOSE t \in {SubSeq(s, i, j) : i \in 1..(Len(s) + 1), j \in 0..Len(s)} :
                  IsTrimOf(t, s)

\* The order of the queries as the claim names them: tool, then package.
ClaimedOrder ==
    << <<"pkg-config", "libturbojpeg">>,
       <<"dpkg-query", "libturbojpeg">>,
       <<"dpkg-query", "libturbojpeg0">>,
       <<"dpkg-query", "libjpeg-turbo8">>,
       <<"rpm", "libjpeg-turbo-devel">>,
       <<"brew", "jpeg-turbo">> >>

CallIs(call, q) == call.argv[1] = q[1] /\ call.argv[Len(call.argv)] = q[2]

\* Query i yields a three-part version: it exits with code 0 and its output
\* holds one, at the start of the text for the first five queries and
\* anywhere in it for brew ("jpeg-turbo 2.1.2").
FirstVersionPos(i, d) ==
    IF i < 6 THEN 1
    ELSE CHOOSE k \in 1..(Len(d) + 1) :
             /\ (k <= Len(d) => HasVersionAt(d, k))
             /\ \A x \in 1..(k - 1) : ~HasVersionAt(d, x)

Yields(i, outcome) ==
    /\ outcome.kind = "completed"
    /\ outcome.returncode = 0
    /\ HasVersionAt(Trimmed(outcome.stdout),
                    FirstVersionPos(i, Trimmed(outcome.stdout)))

DerivedSuffix(i, outcome) ==
    LET d == Trimmed(outcome.stdout)
        k == FirstVersionPos(i, d)
        abc == CHOOSE x \in (1..Len(d)) \X (1..Len(d)) \X (1..Len(d)) :
                   VersionAt(d, k, x[1], x[2], x[3])
    IN SuffixAt(d, k, abc[1], abc[2], abc[3])

\* The definitions above, tabulated over the outcomes of the model.
YieldsOf == [i \in 1..6 |-> [o \in Outcomes |-> Yields(i, o)]]
DerivedSuffixOf ==
    [i \in 1..6 |-> [o \in Outcomes |-> IF Yields(i, o) THEN DerivedSuffix(i, o) ELSE None]]
\* The suffixes the claim allows for an output whose text begins with M.m.p.
LeadingVersionSuffixes ==
    [o \in Outcomes |->
        LET d == Trimmed(o.stdout) IN
        { SuffixAt(d, 1, x[1], x[2], x[3]) :
            x \in { y \in (1..Len(d)) \X (1..Len(d)) \X (1..Len(d)) :
                       VersionAt(d, 1, y[1], y[2], y[3]) } }]

Returned == vpc \in {"returned", "done"}

\* C3: get_version returns exactly BASE_VERSION when get_turbojpeg_version
\* returned None, otherwise BASE_VERSION, "+" and the suffix; whenever the
\* detected version text begins with M.m.p the suffix is "tj" followed by the
\* digits of M, m and p with no separator.
C3_GetVersion ==
    vpc = "done" =>
        /\ (tj_suffix = None => version = <<"2", ".", "0", ".", "0">>)
        /\ (tj_suffix # None =>
               /\ version = <<"2", ".", "0", ".", "0", "+">> \o tj_suffix
               /\ \A s \in LeadingVersionSuffixes[calls[Len(calls)].outcome] :
                      tj_suffix = s)

\* C3 witness: "2.1.2-0ubuntu1" was detected and gave "2.0.0+tj212".
C3_Witness ==
    /\ vpc = "done"
    /\ calls[Len(calls)].outcome.stdout =
           <<"2", ".", "1", ".", "2", "-", "0", "u", "b", "u", "n", "t", "u", "1">>
    /\ version = <<"2", ".", "0", ".", "0", "+", "t", "j", "2", "1", "2">>

\* C3 witness of the fallback: nothing detected, plain base version.
C3_WitnessNone ==
    vpc = "done" /\ tj_suffix = None /\ version = <<"2", ".", "0", ".", "0">>

\* C4: the queries are made in the order pkg-config, dpkg-query for
\* libturbojpeg, libturbojpeg0, libjpeg-turbo8, rpm, brew; no query follows
\* one that yielded a version; the value returned is the suffix derived from
\* the first yielding query, or None when all six were made and none yielded.
C4_QueryOrder ==
    /\ Len(calls) <= Len(ClaimedOrder)
    /\ \A i \in 1..Len(calls) : CallIs(calls[i], ClaimedOrder[i])
    /\ \A i \in 1..(Len(calls) - 1) : ~YieldsOf[i][calls[i].outcome]
    /\ Returned =>
          LET n == Len(calls) IN
          IF YieldsOf[n][calls[n].outcome]
          THEN tj_suffix = DerivedSuffixOf[n][calls[n].outcome]
          ELSE n = Len(ClaimedOrder) /\ tj_suffix = None

\* C4 witness: pkg-config and the first two dpkg-query calls did not yield,
\* the third dpkg-query did, and rpm and brew were never invoked.
C4_Witness ==
    /\ vpc = "done"
    /\ Len(calls) = 4
    /\ calls[4].argv = << "dpkg-query", "-W", "-f=${Version}", "libjpeg-turbo8" >>
    /\ calls[1].outcome.kind = "FileNotFoundError"
    /\ calls[2].outcome.returncode = 1
    /\ tj_suffix = <<"t", "j", "2", "1", "2">>

\* An outcome the claim calls unavailable or unhelpful: the executable is
\* missing, it exits non-zero, or its output holds no three-part version.
Unhelpful(outcome) ==
    \/ outcome.kind = "FileNotFoundError"
    \/ outcome.kind = "completed" /\ outcome.returncode # 0
    \/ /\ outcome.kind = "completed"
       /\ \A k \in 1..Len(outcome.stdout) : ~HasVersionAt(outcome.stdout, k)

UnhelpfulOf == [o \in Outcomes |-> Unhelpful(o)]

PcOfQuery == << "pkg-config", "dpkg-query", "dpkg-query", "dpkg-query", "rpm", "brew" >>

\* C5: while every query made so far was unavailable or unhelpful, nothing
\* has been raised and detection stands at the next query; after six such
\* queries the function has returned None and get_version gives BASE_VERSION.
C5_NeverRaises ==
    (\A i \in 1..Len(calls) : UnhelpfulOf[calls[i].outcome]) =>
        /\ vpc # "raised"
        /\ Len(calls) < 6 => vpc = PcOfQuery[Len(calls) + 1] /\ tj_suffix = Unset
        /\ Len(calls) = 6 =>
              /\ Returned
              /\ tj_suffix = None
              /\ vpc = "done" => version = <<"2", ".", "0", ".", "0">>

\* C5 witness: six queries ended by a missing executable, a non-zero exit or
\* a version-less output (each of the three occurred), and the base version
\* was returned.
C5_Witness ==
    /\ vpc = "done"
    /\ Len(calls) = 6
    /\ \A i \in 1..6 : UnhelpfulOf[calls[i].outcome]
    /\ \E i \in 1..6 : calls[i].outcome.kind = "FileNotFoundError"
    /\ \E i \in 1..6 : calls[i].outcome.returncode = 1
    /\ \E i \in 1..6 : calls[i].outcome.returncode = 0
    /\ version = <<"2", ".", "0", ".", "0">>

\* ----------------------------------------------- bundle_libs.py properties
Succeeded == bpc \in {"returned", "exit0"}
\* The run is a call of bundle_wheel (not of patch_rpath on its own).
InBundleWheel == bpc \notin {"patch_rpath_returned", "patch_rpath_raised"}
EntryNamesOf(file) == { e.name : e \in file.entries }

\* C1: when get_turbojpeg_lib_path returned no directory, bundle_wheel has
\* raised RuntimeError and nothing else has happened: no temporary directory,
\* no extraction, no turbojpeg_libs, no subprocess, no file-system write, and
\* the wheel files on disk are as they were.
C1_NoLibraryNoEffect ==
    (InBundleWheel /\ bpc # "start" /\ lib_dir = "<None>") =>
        /\ bpc \in {"raised", "exit1"}
        /\ error = "RuntimeError"
        /\ fs_ops = <<>>
        /\ ~tmp_exists
        /\ DOMAIN tree = {}
        /\ patch_calls = {}
        /\ disk = disk0
        /\ result = "<None>"

\* C1 witness: on Linux, with an input wheel and a stale file at the output
\* path, no library was found and main ended with the error.
C1_Witness ==
    /\ bpc = "exit1"
    /\ system = "Linux"
    /\ lib_dir = "<None>"
    /\ error = "RuntimeError"
    /\ output_dir = "out"
    /\ disk0["dist/pkg.whl"].present
    /\ disk0["out/pkg.whl"].present

\* C2: after a successful bundle_wheel the output wheel holds every entry
\* name of the input wheel and the entry turbojpeg_libs/<lib_name>, for every
\* input wheel, platform and kind of library path.
C2_OutputHasInputAndLibrary ==
    Succeeded =>
        /\ EntryNamesOf(disk0["dist/pkg.whl"]) \subseteq EntryNamesOf(disk[result])
        /\ << "turbojpeg_libs", LibName(system) >> \in EntryNamesOf(disk[result])

\* The same for the input wheels that hold no directory at
\* turbojpeg_libs/<lib_name>: for those it holds, symlink or regular file.
C2_WithoutDirectoryAtLibName ==
    (Succeeded /\ \A n \in EntryNamesOf(disk0["dist/pkg.whl"]) :
                     ~(Len(n) > 2 /\ n[1] = "turbojpeg_libs" /\ n[2] = LibName(system))) =>
        /\ EntryNamesOf(disk0["dist/pkg.whl"]) \subseteq EntryNamesOf(disk[result])
        /\ << "turbojpeg_libs", LibName(system) >> \in EntryNamesOf(disk[result])

\* The names of the model that the pattern *.so* matches.
SoNamed == {"libturbojpeg.so", "libturbojpeg.so.0", "libturbojpeg.so.0.2.0", "other.so"}
RecordPath == << "turbojpeg_torch-2.0.0.dist-info", "RECORD" >>
PatchingOver ==
    \/ bpc \in {"record", "repack", "returned", "exit0"}
    \/ raised_at \in {"patch", "record", "repack"}

\* C6: patch_rpath runs no patchelf subprocess on a platform other than
\* Linux, and a missing or failing patchelf never makes it raise; in
\* bundle_wheel on Linux every non-symlink file of turbojpeg_libs matching
\* *.so* is handed to patchelf with rpath "$ORIGIN", the patching step raises
\* for no CalledProcessError or FileNotFoundError, and bundling goes on to
\* update RECORD, write the output wheel and return its path (the one later
\* failure, a missing output directory, does not come from patching).
C6_PatchingNeverAborts ==
    /\ system # "Linux" => patch_calls = {}
    /\ bpc # "start" /\ ~InBundleWheel /\ system # "Linux" => bpc = "patch_rpath_returned"
    /\ bpc = "patch_rpath_raised" =>
          \E c \in patch_calls :
              c.outcome \notin {"ok", "CalledProcessError", "FileNotFoundError"}
    /\ InBundleWheel => \A c \in patch_calls : c.rpath = "$ORIGIN"
    /\ (system = "Linux" /\ bpc \in {"record", "repack"}) =>
          \A p \in DOMAIN tree :
              (Len(p) = 2 /\ p[1] = "turbojpeg_libs" /\ p[2] \in SoNamed
                 /\ tree[p].kind = "file")
              => \E c \in patch_calls : c.file = p
    /\ raised_at = "patch" =>
          \E c \in patch_calls :
              c.outcome \notin {"ok", "CalledProcessError", "FileNotFoundError"}
    /\ (PatchingOver /\ \A c \in patch_calls :
                           c.outcome \in {"ok", "CalledProcessError", "FileNotFoundError"}) =>
          \/ bpc \in {"record", "repack", "returned", "exit0"}
          \/ raised_at = "repack" /\ output_dir = "nodir"
    /\ Succeeded =>
          /\ result = (IF output_dir = "None" THEN "dist/pkg.whl" ELSE "out/pkg.whl")
          /\ disk[result].present
          /\ \A e \in disk[result].entries :
                e.name = RecordPath =>
                  /\ e.data.appended # {}
                  /\ \A n \in EntryNamesOf(disk[result]) :
                        (Len(n) = 2 /\ n[1] = "turbojpeg_libs") => n \in e.data.appended

\* C6 witness: on Linux one patchelf call failed with CalledProcessError,
\* and the call still returned the output wheel, RECORD updated in it.
C6_Witness ==
    /\ bpc = "exit0"
    /\ system = "Linux"
    /\ \E c \in patch_calls : c.outcome = "CalledProcessError"
    /\ result = "out/pkg.whl"
    /\ \E e \in disk[result].entries :
          e.name = RecordPath /\ << "turbojpeg_libs", "libturbojpeg.so.0" >> \in e.data.appended

\* C6 witness: patchelf is missing (FileNotFoundError) and the call returns.
C6_WitnessMissing ==
    /\ bpc = "exit0"
    /\ \E c \in patch_calls : c.outcome = "FileNotFoundError"
    /\ disk[result].present

====
